---- MODULE Spec2Model ----
(***************************************************************************)
(* A model of src/scraper.py: the ADM tender scraper.                      *)
(*                                                                         *)
(* Text is a sequence of chunks: a chunk is either one whitespace          *)
(* character (a member of WS) or a whitespace-free piece of text.  Markup  *)
(* attributes that the code takes apart with str.split are sequences of    *)
(* tokens.  A record (OrderedDict) is a sequence of <<key, value>> pairs   *)
(* in insertion order.  The key 'Référence' is written "Reference".        *)
(***************************************************************************)
EXTENDS Integers, Sequences, FiniteSets, TLC

VARIABLES
    pc,            \* position of the run (of main, or of the function under study)
    requests,      \* the HTTP requests the session has issued, in order
    responses,     \* what the server answered to each of them, in order
    html,          \* the markup fetch_list_page returned
    nombre_element,\* main: nombre_element, the total-count span read from html
    total_results, \* main: total_results
    tender_cards,  \* extract_all_tenders: the cards the loop has gone through
    all_tenders,   \* extract_all_tenders: all_tenders
    seen_refs,     \* extract_all_tenders: seen_refs
    csv_file,      \* what save_to_csv wrote (None: not written)
    json_file,     \* what save_to_json wrote (None: not written)
    error,         \* which except clause of main reported (None: none)
    arg,           \* the argument of the function under study
    ret            \* its result

vars == <<pc, requests, responses, html, nombre_element, total_results, tender_cards,
          all_tenders, seen_refs, csv_file, json_file, error, arg, ret>>

\* Python's None, as a one-element sequence holding a token no text holds.
None == <<"None">>

----------------------------------------------------------------------------
(* Bounds of the model *)

\* longest text given to clean_text
MaxLen == 6
\* most record cards in the markup given to extract_all_tenders
MaxCards == 3
\* most 'limita p-card' blocks in the card given to extract_tender_from_card
MaxBlocks == 3
\* most record cards on the page fetched by main
MaxPageCards == 2

----------------------------------------------------------------------------
(* clean_text *)

\* the characters Python's \s and str.strip() both take as whitespace
WS == {" ", "\t", "\n"}

RECURSIVE LStrip(_)
LStrip(s) ==
    IF s = <<>> THEN <<>>
    ELSE IF Head(s) \in WS THEN LStrip(Tail(s)) ELSE s

RECURSIVE RStrip(_)
RStrip(s) ==
    IF s = <<>> THEN <<>>
    ELSE IF s[Len(s)] \in WS THEN RStrip(SubSeq(s, 1, Len(s) - 1)) ELSE s

\* text.strip()
Strip(s) == RStrip(LStrip(s))

\* re.sub(r'\s+', ' ', text): every maximal run of whitespace becomes one space
RECURSIVE ReSubWs(_)
ReSubWs(s) ==
    IF s = <<>> THEN <<>>
    ELSE IF Head(s) \in WS
         THEN <<" ">> \o ReSubWs(LStrip(Tail(s)))
         ELSE <<Head(s)>> \o ReSubWs(Tail(s))

\* a plausible slip: the trailing .strip() left out
clean_text_NoStrip(text) ==
    IF text = None \/ text = <<>> THEN <<>> ELSE ReSubWs(text)

clean_text(text) ==
    IF text = None \/ text = <<>> THEN <<>> ELSE Strip(ReSubWs(text))

----------------------------------------------------------------------------
(* OrderedDict *)

Has(d, k) == \E i \in 1..Len(d) : d[i][1] = k

Get(d, k) == d[CHOOSE i \in 1..Len(d) : d[i][1] = k][2]

\* d[k] = v
Put(d, k, v) ==
    IF Has(d, k)
    THEN [i \in 1..Len(d) |-> IF d[i][1] = k THEN <<k, v>> ELSE d[i]]
    ELSE Append(d, <<k, v>>)

\* list(d.keys())
Keys(d) == [i \in 1..Len(d) |-> d[i][1]]

----------------------------------------------------------------------------
(* str.split and str.join *)

StartsWith(s, sep) ==
    /\ Len(s) >= Len(sep)
    /\ SubSeq(s, 1, Len(sep)) = sep

\* s.split(sep), sep not empty: the pieces of s between the occurrences of sep
RECURSIVE SplitFrom(_, _, _)
SplitFrom(s, sep, piece) ==
    IF s = <<>> THEN <<piece>>
    ELSE IF StartsWith(s, sep)
         THEN <<piece>> \o SplitFrom(SubSeq(s, Len(sep) + 1, Len(s)), sep, <<>>)
         ELSE SplitFrom(Tail(s), sep, Append(piece, Head(s)))

Split(s, sep) == SplitFrom(s, sep, <<>>)

\* sep.join(parts)
RECURSIVE Join(_, _)
Join(parts, sep) ==
    IF parts = <<>> THEN <<>>
    ELSE IF Len(parts) = 1 THEN parts[1]
    ELSE parts[1] \o sep \o Join(Tail(parts), sep)

----------------------------------------------------------------------------
(* extract_tender_from_card *)

\* A card is [onclick, ref_span, estim_span, limita_cards]:
\*   onclick       the tokens of the onclick attribute
\*   ref_span      the text of the span whose id ends in 'referencem', or None
\*   estim_span    the text of the span of class 'estim-mad', or None
\*   limita_cards  the 'limita p-card' blocks in document order, each
\*                 [phrase, date_divs]: whether its cleaned text contains
\*                 "Date limite de remise des plis", and, for each nested div
\*                 styled vertical-align, the text of its first span styled
\*                 display (None: it has none)
\* The cards of the model hold none of the other elements (verticalText,
\* p-objet, title p-card, certificat, the "Lieu d'exécution" label), so the
\* extractors of those add no field.

BASE_URL == "https://achats.adm.co.ma/"
HREF == "location.href="
DQ == "\""

K_URL == "URL"
K_REF == "Reference"
K_ESTIM == "Estimation (en DH)"
K_DATE == "Date et heure limite de remise des plis"

\* urljoin(BASE_URL, url), url a relative reference
urljoin(base, url) == <<base>> \o url

\* 'location.href=' in onclick
HasHref(onclick) == \E i \in 1..Len(onclick) : onclick[i] = HREF

\* onclick.split('location.href="')[1] is out of range
RaisesIndexError(card_div) ==
    /\ HasHref(card_div.onclick)
    /\ Len(Split(card_div.onclick, <<HREF, DQ>>)) < 2

ExtractURL(card_div, data) ==
    IF HasHref(card_div.onclick)
    THEN LET url == Split(Split(card_div.onclick, <<HREF, DQ>>)[2], <<DQ>>)[1]
         IN  Put(data, K_URL, urljoin(BASE_URL, url))
    ELSE data

ExtractRef(card_div, data) ==
    IF card_div.ref_span # None
    THEN Put(data, K_REF, clean_text(card_div.ref_span))
    ELSE data

ExtractEstim(card_div, data) ==
    IF card_div.estim_span # None /\ clean_text(card_div.estim_span) # <<>>
    THEN Put(data, K_ESTIM, clean_text(card_div.estim_span))
    ELSE data

\* the loop over date_divs: the cleaned, non-empty span texts, each once
RECURSIVE DateParts(_, _)
DateParts(date_divs, date_parts) ==
    IF date_divs = <<>> THEN date_parts
    ELSE LET date_span == Head(date_divs)
             date_text == clean_text(date_span)
             seen == \E j \in 1..Len(date_parts) : date_parts[j] = date_text
         IN  IF date_span # None /\ date_text # <<>> /\ ~seen
             THEN DateParts(Tail(date_divs), Append(date_parts, date_text))
             ELSE DateParts(Tail(date_divs), date_parts)

\* the loop over limita_cards, from index i on, with the flag found_date
RECURSIVE ScanDeadline(_, _, _, _)
ScanDeadline(limita_cards, i, found_date, data) ==
    IF i > Len(limita_cards) THEN data
    ELSE IF limita_cards[i].phrase /\ ~found_date
         THEN IF i + 1 <= Len(limita_cards)
              THEN LET date_parts == DateParts(limita_cards[i + 1].date_divs, <<>>)
                   IN  IF date_parts # <<>>
                       THEN Put(data, K_DATE, Join(date_parts, <<" ">>))
                       ELSE ScanDeadline(limita_cards, i + 1, TRUE, data)
              ELSE ScanDeadline(limita_cards, i + 1, TRUE, data)
         ELSE ScanDeadline(limita_cards, i + 1, found_date, data)

ExtractDeadline(card_div, data) == ScanDeadline(card_div.limita_cards, 1, FALSE, data)

\* [raised, data]: raised when the call ends in IndexError, else data is returned
extract_tender_from_card(card_div) ==
    IF RaisesIndexError(card_div)
    THEN [raised |-> TRUE, data |-> <<>>]
    ELSE [raised |-> FALSE,
          data |-> ExtractDeadline(card_div,
                     ExtractEstim(card_div,
                       ExtractRef(card_div,
                         ExtractURL(card_div, <<>>))))]

----------------------------------------------------------------------------
(* extract_all_tenders: the body of the loop *)

\* a plausible slip: the reference is never added to seen_refs
LoopBody_NoAdd(tenders, seen, tender_data) ==
    IF tender_data # <<>> /\ Has(tender_data, K_REF)
    THEN IF Get(tender_data, K_REF) \notin seen
         THEN [all_tenders |-> Append(tenders, tender_data), seen_refs |-> seen]
         ELSE [all_tenders |-> tenders, seen_refs |-> seen]
    ELSE IF tender_data # <<>> /\ Has(tender_data, K_URL)
         THEN [all_tenders |-> Append(tenders, tender_data), seen_refs |-> seen]
         ELSE [all_tenders |-> tenders, seen_refs |-> seen]

\* a plausible slip: a duplicate replaces the record kept (last occurrence wins)
LoopBody_LastWins(tenders, seen, tender_data) ==
    IF tender_data # <<>> /\ Has(tender_data, K_REF)
    THEN LET ref == Get(tender_data, K_REF)
         IN  IF ref \notin seen
             THEN [all_tenders |-> Append(tenders, tender_data),
                   seen_refs |-> seen \cup {ref}]
             ELSE [all_tenders |->
                       [k \in 1..Len(tenders) |->
                           IF Has(tenders[k], K_REF) /\ Get(tenders[k], K_REF) = ref
                           THEN tender_data ELSE tenders[k]],
                   seen_refs |-> seen]
    ELSE IF tender_data # <<>> /\ Has(tender_data, K_URL)
         THEN [all_tenders |-> Append(tenders, tender_data), seen_refs |-> seen]
         ELSE [all_tenders |-> tenders, seen_refs |-> seen]

\* a plausible slip: records without a reference are deduplicated by URL
LoopBody_DedupURL(tenders, seen, tender_data) ==
    IF tender_data # <<>> /\ Has(tender_data, K_REF)
    THEN LET ref == Get(tender_data, K_REF)
         IN  IF ref \notin seen
             THEN [all_tenders |-> Append(tenders, tender_data),
                   seen_refs |-> seen \cup {ref}]
             ELSE [all_tenders |-> tenders, seen_refs |-> seen]
    ELSE IF /\ tender_data # <<>>
            /\ Has(tender_data, K_URL)
            /\ ~\E k \in 1..Len(tenders) :
                   Has(tenders[k], K_URL)
                   /\ Get(tenders[k], K_URL) = Get(tender_data, K_URL)
         THEN [all_tenders |-> Append(tenders, tender_data), seen_refs |-> seen]
         ELSE [all_tenders |-> tenders, seen_refs |-> seen]

\* lines 195-205: what one iteration does to all_tenders and seen_refs
LoopBody(tenders, seen, tender_data) ==
    IF tender_data # <<>> /\ Has(tender_data, K_REF)
    THEN LET ref == Get(tender_data, K_REF)
         IN  IF ref \notin seen
             THEN [all_tenders |-> Append(tenders, tender_data),
                   seen_refs |-> seen \cup {ref}]
             ELSE [all_tenders |-> tenders, seen_refs |-> seen]
    ELSE IF tender_data # <<>> /\ Has(tender_data, K_URL)
         THEN [all_tenders |-> Append(tenders, tender_data), seen_refs |-> seen]
         ELSE [all_tenders |-> tenders, seen_refs |-> seen]

----------------------------------------------------------------------------
(* get_all_fieldnames *)

\* all_fields[key] = None for every key of every record, in order
RECURSIVE AllFields(_, _)
AllFields(data_list, all_fields) ==
    IF data_list = <<>> THEN all_fields
    ELSE LET ks == Keys(Head(data_list))
             RECURSIVE AddKeys(_, _)
             AddKeys(keys, acc) ==
                 IF keys = <<>> THEN acc
                 ELSE AddKeys(Tail(keys), Put(acc, Head(keys), None))
         IN  AllFields(Tail(data_list), AddKeys(ks, all_fields))

get_all_fieldnames(data_list) ==
    LET all_fields == Keys(AllFields(data_list, <<>>))
    IN  <<K_URL>> \o SelectSeq(all_fields, LAMBDA key : key # K_URL)

----------------------------------------------------------------------------
(* fetch_list_page *)

LIST_URL == "https://achats.adm.co.ma/?page=entreprise.EntrepriseAdvancedSearch&AllCons&searchAnnCons"
PAGE_SIZE_TOP == "ctl0$CONTENU_PAGE$resultSearch$listePageSizeTop"
PAGE_SIZE_BOTTOM == "ctl0$CONTENU_PAGE$resultSearch$listePageSizeBottom"
PRADO_PAGESTATE == "PRADO_PAGESTATE"
PRADO_POSTBACK_TARGET == "PRADO_POSTBACK_TARGET"

\* A response is [kind, status, body, pagestate_input]: kind "timeout" when the
\* call itself raised, else "response"; body names the markup returned;
\* pagestate_input is what soup.find('input', {'name': 'PRADO_PAGESTATE'})
\* finds in it: [found, has_value, value].

\* session.get / session.post raised, or raise_for_status() does
Failed(resp) == resp.kind = "timeout" \/ resp.status >= 400

\* pagestate_input.get('value', '')
PageState(pagestate_input) ==
    IF pagestate_input.has_value THEN pagestate_input.value ELSE ""

\* a plausible slip: the bottom page-size control left at another size
Payload_BottomDiffers(pagestate) ==
    Put(Put(<< <<PAGE_SIZE_TOP, "500">>, <<PAGE_SIZE_BOTTOM, "10">> >>,
            PRADO_PAGESTATE, pagestate),
        PRADO_POSTBACK_TARGET, PAGE_SIZE_TOP)

\* the payload of the POST
Payload(pagestate) ==
    Put(Put(<< <<PAGE_SIZE_TOP, "500">>, <<PAGE_SIZE_BOTTOM, "500">> >>,
            PRADO_PAGESTATE, pagestate),
        PRADO_POSTBACK_TARGET, PAGE_SIZE_TOP)

GetRequest == [method |-> "GET", url |-> LIST_URL, data |-> <<>>]
PostRequest(payload) == [method |-> "POST", url |-> LIST_URL, data |-> payload]

\* a plausible slip: no raise_for_status() after the GET
fetch_list_page_NoRaise(get_resp, post_resp) ==
    IF get_resp.kind = "timeout"
    THEN [raised |-> TRUE, requests |-> <<GetRequest>>,
          responses |-> <<get_resp>>, html |-> ""]
    ELSE IF get_resp.pagestate_input.found
         THEN LET payload == Payload(PageState(get_resp.pagestate_input))
              IN  [raised |-> Failed(post_resp),
                   requests |-> <<GetRequest, PostRequest(payload)>>,
                   responses |-> <<get_resp, post_resp>>,
                   html |-> IF Failed(post_resp) THEN "" ELSE post_resp.body]
         ELSE [raised |-> FALSE, requests |-> <<GetRequest>>,
               responses |-> <<get_resp>>, html |-> get_resp.body]

\* [raised, requests, responses, html]: the requests issued, the answers got,
\* and either the markup returned or a RequestException raised
fetch_list_page(get_resp, post_resp) ==
    IF Failed(get_resp)
    THEN [raised |-> TRUE, requests |-> <<GetRequest>>,
          responses |-> <<get_resp>>, html |-> ""]
    ELSE IF get_resp.pagestate_input.found
         THEN LET payload == Payload(PageState(get_resp.pagestate_input))
              IN  [raised |-> Failed(post_resp),
                   requests |-> <<GetRequest, PostRequest(payload)>>,
                   responses |-> <<get_resp, post_resp>>,
                   html |-> IF Failed(post_resp) THEN "" ELSE post_resp.body]
         ELSE [raised |-> FALSE, requests |-> <<GetRequest>>,
               responses |-> <<get_resp>>, html |-> get_resp.body]

----------------------------------------------------------------------------
(* save_to_csv, save_to_json *)

NotWritten == [written |-> FALSE, fieldnames |-> <<>>, rows |-> <<>>]

\* the header and one row per record, a missing field as ""
save_to_csv(data_list) ==
    LET fieldnames == get_all_fieldnames(data_list)
    IN  [written |-> TRUE,
         fieldnames |-> fieldnames,
         rows |-> [r \in 1..Len(data_list) |->
                     [f \in 1..Len(fieldnames) |->
                        IF Has(data_list[r], fieldnames[f])
                        THEN Get(data_list[r], fieldnames[f])
                        ELSE <<>>]]]

\* "tenders" of the JSON output; fieldnames is not used
save_to_json(data_list) ==
    [written |-> TRUE, fieldnames |-> <<>>, rows |-> data_list]

----------------------------------------------------------------------------
(* The inputs of the model *)

NoInput == [found |-> FALSE, has_value |-> FALSE, value |-> ""]

PageStateInputs ==
    {NoInput}
    \cup {[found |-> TRUE, has_value |-> FALSE, value |-> ""]}
    \cup {[found |-> TRUE, has_value |-> TRUE, value |-> v] : v \in {"", "tokA", "tokB "}}

GetResponses ==
    {[kind |-> "timeout", status |-> 0, body |-> "", pagestate_input |-> NoInput]}
    \cup {[kind |-> "response", status |-> st, body |-> "page of 10",
           pagestate_input |-> pi] : st \in {200, 404, 500}, pi \in PageStateInputs}

PostResponses ==
    {[kind |-> "timeout", status |-> 0, body |-> "", pagestate_input |-> NoInput]}
    \cup {[kind |-> "response", status |-> st, body |-> "page of 500",
           pagestate_input |-> NoInput] : st \in {200, 500}}

\* the total-count span: [found, text]
NoElement == [found |-> FALSE, text |-> <<>>]

NombreElements ==
    {NoElement}
    \cup {[found |-> TRUE, text |-> t] :
            t \in {<<"7">>, <<" ", "501", "\n">>, <<"abc">>, <<" ">>}}

\* int(s): the value of a text that is one run of digits
IsInt(s) == s \in {<<"7">>, <<"501">>}
IntOf(s) == IF s = <<"7">> THEN 7 ELSE 501

OnClicks ==
    { <<"window.open()">>,
      <<"document.", HREF, DQ, "?page=1", DQ, ";">>,
      <<"document.", HREF, DQ, "?page=2", DQ, ";">>,
      <<"document.", HREF, "'", "?page=1", "'", ";">> }

RefSpans == {None, <<"AOO-1">>, <<" ", "AOO-1", "\n">>, <<"AOO-2">>}

DeadlineBlocks ==
    << [phrase |-> TRUE, date_divs |-> <<>>],
       [phrase |-> FALSE,
        date_divs |-> << <<"31/12/2025">>, <<" ", "31/12/2025">>, <<"10:00">> >>] >>

\* the cards of the markup given to extract_all_tenders
Cards ==
    {[onclick |-> o, ref_span |-> r, estim_span |-> None, limita_cards |-> <<>>] :
        o \in OnClicks, r \in RefSpans}
    \cup {[onclick |-> <<"document.", HREF, DQ, "?page=3">>, ref_span |-> <<>>,
           estim_span |-> <<"1", " ", " ", "000">>, limita_cards |-> DeadlineBlocks]}

\* the cards of the page main fetches
PageCards ==
    {[onclick |-> o, ref_span |-> r, estim_span |-> None, limita_cards |-> <<>>] :
        o \in OnClicks, r \in {None, <<"AOO-1">>}}
    \cup {[onclick |-> <<"document.", HREF, DQ, "?page=3">>, ref_span |-> <<" ", "AOO-1">>,
           estim_span |-> <<"1", " ", " ", "000">>, limita_cards |-> DeadlineBlocks]}

\* the span texts of a date div
DateDivs ==
    { <<>>,
      << <<"31/12/2025">> >>,
      << <<"31/12/2025">>, <<"10:00">> >>,
      << <<" ", "31/12/2025">>, <<"31/12/2025">>, <<"10:00", "\n">> >>,
      << None, <<" ", "\t">> >> }

Blocks == [phrase : BOOLEAN, date_divs : DateDivs]

RECURSIVE SeqsUpTo(_, _)
SeqsUpTo(S, n) ==
    IF n = 0 THEN {<<>>}
    ELSE LET shorter == SeqsUpTo(S, n - 1)
         IN  shorter \cup {Append(s, x) : s \in shorter, x \in S}

\* the cards given to extract_tender_from_card on its own
BlockCards ==
    {[onclick |-> <<"window.open()">>, ref_span |-> None, estim_span |-> None,
      limita_cards |-> bs] : bs \in SeqsUpTo(Blocks, MaxBlocks)}

\* the texts given to clean_text
Texts == {None} \cup SeqsUpTo({"a", " ", "\t"}, MaxLen)

----------------------------------------------------------------------------
(* main *)

Idle ==
    /\ requests = <<>>
    /\ responses = <<>>
    /\ html = ""
    /\ nombre_element = NoElement
    /\ total_results = 0
    /\ tender_cards = <<>>
    /\ all_tenders = <<>>
    /\ seen_refs = {}
    /\ csv_file = NotWritten
    /\ json_file = NotWritten
    /\ error = ""
    /\ arg = <<>>
    /\ ret = <<>>

Init ==
    /\ pc = "start"
    /\ Idle

\* main, line 286: html = fetch_list_page(session), or the except clause of
\* line 322
FetchListPage ==
    /\ pc = "start"
    /\ \E get_resp \in GetResponses, post_resp \in PostResponses :
         LET r == fetch_list_page(get_resp, post_resp)
         IN  /\ requests' = r.requests
             /\ responses' = r.responses
             /\ html' = r.html
             /\ pc' = IF r.raised THEN "error" ELSE "fetched"
             /\ error' = IF r.raised THEN "Network error" ELSE ""
    /\ UNCHANGED <<nombre_element, total_results, tender_cards, all_tenders,
                   seen_refs, csv_file, json_file, arg, ret>>

\* main, lines 289-295: the total count, or the except clause of line 324
\* when int() raises ValueError
ParseTotal ==
    /\ pc = "fetched"
    /\ \E element \in NombreElements :
         /\ nombre_element' = element
         /\ IF ~element.found
            THEN /\ pc' = "extract"
                 /\ UNCHANGED <<total_results, error>>
            ELSE IF IsInt(Strip(element.text))
                 THEN /\ total_results' = IntOf(Strip(element.text))
                      /\ pc' = "extract"
                      /\ UNCHANGED error
                 ELSE /\ pc' = "error"
                      /\ error' = "Error"
                      /\ UNCHANGED total_results
    /\ UNCHANGED <<requests, responses, html, tender_cards, all_tenders,
                   seen_refs, csv_file, json_file, arg, ret>>

\* extract_all_tenders, lines 191-205: one iteration of the loop, on the next
\* card of the markup; an exception of extract_tender_from_card leaves the
\* function, and main reports it in the except clause of line 324
ExtractCard(cards, max) ==
    /\ pc = "extract"
    /\ Len(tender_cards) < max
    /\ \E card \in cards :
         LET r == extract_tender_from_card(card)
             b == LoopBody(all_tenders, seen_refs, r.data)
         IN  /\ tender_cards' = Append(tender_cards, card)
             /\ IF r.raised
                THEN /\ pc' = "error"
                     /\ error' = "Error"
                     /\ UNCHANGED <<all_tenders, seen_refs>>
                ELSE /\ all_tenders' = b.all_tenders
                     /\ seen_refs' = b.seen_refs
                     /\ UNCHANGED <<pc, error>>
    /\ UNCHANGED <<requests, responses, html, nombre_element, total_results, csv_file,
                   json_file, arg, ret>>

\* main, lines 297-320: extract_all_tenders returns once the cards are
\* through; nothing is written when there is no tender, else both files are
Save ==
    /\ pc = "extract"
    /\ pc' = "done"
    /\ IF all_tenders = <<>>
       THEN UNCHANGED <<csv_file, json_file>>
       ELSE /\ csv_file' = save_to_csv(all_tenders)
            /\ json_file' = save_to_json(all_tenders)
    /\ UNCHANGED <<requests, responses, html, nombre_element, total_results, tender_cards,
                   all_tenders, seen_refs, error, arg, ret>>

Next ==
    \/ FetchListPage
    \/ ParseTotal
    \/ ExtractCard(PageCards, MaxPageCards)
    \/ Save

Spec == Init /\ [][Next]_vars

----------------------------------------------------------------------------
(* extract_all_tenders on its own *)

InitExtract ==
    /\ pc = "extract"
    /\ Idle

\* line 207: return all_tenders
ExtractReturn ==
    /\ pc = "extract"
    /\ pc' = "returned"
    /\ ret' = all_tenders
    /\ UNCHANGED <<requests, responses, html, nombre_element, total_results, tender_cards,
                   all_tenders, seen_refs, csv_file, json_file, error, arg>>

NextExtract ==
    \/ ExtractCard(Cards, MaxCards)
    \/ ExtractReturn

SpecExtract == InitExtract /\ [][NextExtract]_vars

----------------------------------------------------------------------------
(* extract_tender_from_card on its own *)

InitCard ==
    /\ pc = "card"
    /\ requests = <<>>
    /\ responses = <<>>
    /\ html = ""
    /\ nombre_element = NoElement
    /\ total_results = 0
    /\ tender_cards = <<>>
    /\ all_tenders = <<>>
    /\ seen_refs = {}
    /\ csv_file = NotWritten
    /\ json_file = NotWritten
    /\ error = ""
    /\ arg \in BlockCards
    /\ ret = <<>>

CallExtractTender ==
    /\ pc = "card"
    /\ pc' = "card_done"
    /\ ret' = extract_tender_from_card(arg).data
    /\ UNCHANGED <<requests, responses, html, nombre_element, total_results, tender_cards,
                   all_tenders, seen_refs, csv_file, json_file, error, arg>>

NextCard == CallExtractTender

SpecCard == InitCard /\ [][NextCard]_vars

----------------------------------------------------------------------------
(* clean_text on its own *)

InitClean ==
    /\ pc = "clean"
    /\ requests = <<>>
    /\ responses = <<>>
    /\ html = ""
    /\ nombre_element = NoElement
    /\ total_results = 0
    /\ tender_cards = <<>>
    /\ all_tenders = <<>>
    /\ seen_refs = {}
    /\ csv_file = NotWritten
    /\ json_file = NotWritten
    /\ error = ""
    /\ arg \in Texts
    /\ ret = <<>>

\* ret: clean_text(arg), then clean_text of that
CallCleanText ==
    /\ pc = "clean"
    /\ pc' = "clean_done"
    /\ ret' = <<clean_text(arg), clean_text(clean_text(arg))>>
    /\ UNCHANGED <<requests, responses, html, nombre_element, total_results, tender_cards,
                   all_tenders, seen_refs, csv_file, json_file, error, arg>>

NextClean == CallCleanText

SpecClean == InitClean /\ [][NextClean]_vars

----------------------------------------------------------------------------
(* Properties *)

\* the record extracted from each card the loop has gone through
Recs == [i \in 1..Len(tender_cards) |-> extract_tender_from_card(tender_cards[i]).data]

HasRef(d) == Has(d, K_REF)
RefOf(d) == Get(d, K_REF)
NoRefButURL(d) == ~Has(d, K_REF) /\ Has(d, K_URL)

NoDupRefs(rs) ==
    \A i, j \in 1..Len(rs) :
        (i # j /\ HasRef(rs[i]) /\ HasRef(rs[j])) => RefOf(rs[i]) # RefOf(rs[j])

\* C1: at every step of the loop of extract_all_tenders, and in the list it
\* returns, no two accepted records carry the same reference.
C1_DedupInvariant ==
    /\ NoDupRefs(all_tenders)
    /\ pc = "returned" => NoDupRefs(ret)

\* two cards whose reference spans differ as markup and agree once cleaned
\* were both gone through, and the list was returned
C1_Witness ==
    /\ pc = "returned"
    /\ \E i, j \in 1..Len(tender_cards) :
         /\ i < j
         /\ tender_cards[i].ref_span # tender_cards[j].ref_span
         /\ HasRef(Recs[i]) /\ HasRef(Recs[j])
         /\ RefOf(Recs[i]) = RefOf(Recs[j])
    /\ Len(ret) >= 1

\* whether s is t with some elements left out
RECURSIVE IsSubseq(_, _)
IsSubseq(s, t) ==
    IF s = <<>> THEN TRUE
    ELSE IF t = <<>> THEN FALSE
    ELSE IF Head(s) = Head(t) THEN IsSubseq(Tail(s), Tail(t))
    ELSE IsSubseq(s, Tail(t))

\* the first of the records recs that carries the reference r
FirstWith(recs, r) ==
    CHOOSE i \in 1..Len(recs) :
        /\ HasRef(recs[i]) /\ RefOf(recs[i]) = r
        /\ \A j \in 1..(i - 1) : ~(HasRef(recs[j]) /\ RefOf(recs[j]) = r)

\* C2: the result of extract_all_tenders is a subsequence of the per-card
\* records in document order, and the record kept for a reference is the one of
\* the earliest card that carries it.
C2_FirstOccurrenceWins ==
    pc \in {"extract", "returned"} =>
        LET recs == Recs
        IN  /\ IsSubseq(all_tenders, recs)
            /\ \A i \in 1..Len(recs) :
                 HasRef(recs[i]) =>
                    LET first == recs[FirstWith(recs, RefOf(recs[i]))]
                    IN  /\ \E k \in 1..Len(all_tenders) : all_tenders[k] = first
                        /\ \A k \in 1..Len(all_tenders) :
                             (HasRef(all_tenders[k])
                              /\ RefOf(all_tenders[k]) = RefOf(recs[i]))
                                 => all_tenders[k] = first
            /\ pc = "returned" => ret = all_tenders

\* two cards with the same reference and different URLs: one entry, the first's
C2_Witness ==
    /\ pc = "returned"
    /\ \E i, j \in 1..Len(tender_cards) :
         /\ i < j
         /\ HasRef(Recs[i]) /\ HasRef(Recs[j])
         /\ RefOf(Recs[i]) = RefOf(Recs[j])
         /\ Has(Recs[i], K_URL) /\ Has(Recs[j], K_URL)
         /\ Get(Recs[i], K_URL) # Get(Recs[j], K_URL)
         /\ \E k \in 1..Len(ret) : ret[k] = Recs[i]
         /\ \A k \in 1..Len(ret) : ret[k] # Recs[j]

\* C3: every record without a reference and with a URL is appended, whatever
\* was accepted before, and leaves the seen references as they were; no record
\* with neither a reference nor a URL is accepted.
C3_NoReferenceRule ==
    LET recs == Recs
    IN  /\ SelectSeq(all_tenders, LAMBDA d : ~HasRef(d)) = SelectSeq(recs, NoRefButURL)
        /\ seen_refs = {RefOf(recs[i]) : i \in {j \in 1..Len(recs) : HasRef(recs[j])}}
        /\ \A k \in 1..Len(all_tenders) :
             HasRef(all_tenders[k]) \/ Has(all_tenders[k], K_URL)

\* the same record without a reference was accepted twice, and a card with
\* neither a reference nor a URL was gone through
C3_Witness ==
    /\ pc = "returned"
    /\ \E i, j \in 1..Len(ret) : i < j /\ ret[i] = ret[j] /\ NoRefButURL(ret[i])
    /\ \E i \in 1..Len(tender_cards) :
         ~RaisesIndexError(tender_cards[i]) /\ Recs[i] = <<>>

\* the names of the fields of the records, each record after the other
RECURSIVE FlatKeys(_)
FlatKeys(data_list) ==
    IF data_list = <<>> THEN <<>>
    ELSE Keys(Head(data_list)) \o FlatKeys(Tail(data_list))

FirstPos(keys, k) == CHOOSE i \in 1..Len(keys) :
                        keys[i] = k /\ \A j \in 1..(i - 1) : keys[j] # k

\* C4: the field names written are exactly the names that occur in some record,
\* each once, 'URL' first when a record has one, the others in first-seen
\* order.
C4_FieldNameUnion ==
    csv_file.written =>
        LET fn == csv_file.fieldnames
            flat == FlatKeys(all_tenders)
            union == {flat[i] : i \in 1..Len(flat)}
        IN  /\ {fn[i] : i \in 1..Len(fn)} = union
            /\ Len(fn) = Cardinality(union)
            /\ K_URL \in union => fn[1] = K_URL
            /\ \A a, b \in 1..Len(fn) :
                 (a < b /\ fn[a] \in union \ {K_URL} /\ fn[b] \in union \ {K_URL})
                     => FirstPos(flat, fn[a]) < FirstPos(flat, fn[b])

\* C5: one GET first; a POST, once and after the successful GET, exactly when
\* the GET page holds the state-token field; the POST carries the token as
\* read, the postback target and one page size in both page-size fields;
\* without the field the markup returned is the body of the GET.
C5_PaginationProtocol ==
    /\ pc = "start" => requests = <<>>
    /\ pc # "start" =>
        /\ Len(requests) \in {1, 2}
        /\ Len(responses) = Len(requests)
        /\ requests[1].method = "GET"
        /\ Len(requests) = 2 <=>
              (~Failed(responses[1]) /\ responses[1].pagestate_input.found)
        /\ Len(requests) = 2 =>
              /\ requests[2].method = "POST"
              /\ Has(requests[2].data, PRADO_PAGESTATE)
              /\ responses[1].pagestate_input.has_value =>
                    Get(requests[2].data, PRADO_PAGESTATE)
                        = responses[1].pagestate_input.value
              /\ Has(requests[2].data, PRADO_POSTBACK_TARGET)
              /\ Get(requests[2].data, PRADO_POSTBACK_TARGET) = PAGE_SIZE_TOP
              /\ Has(requests[2].data, PAGE_SIZE_TOP)
              /\ Has(requests[2].data, PAGE_SIZE_BOTTOM)
              /\ Get(requests[2].data, PAGE_SIZE_TOP)
                    = Get(requests[2].data, PAGE_SIZE_BOTTOM)
        /\ (~Failed(responses[1]) /\ ~responses[1].pagestate_input.found) =>
              html = responses[1].body

\* a POST went out with a token read from the page, and the run went on
C5_Witness ==
    /\ pc = "fetched"
    /\ Len(requests) = 2
    /\ responses[1].pagestate_input.value = "tokB "
    /\ Get(requests[2].data, PRADO_PAGESTATE) = "tokB "

C7_PerCardIsolation ==
    (\E i \in 1..Len(tender_cards) : RaisesIndexError(tender_cards[i]))
        => pc # "error"

\* C8: a total-count element whose text is no integer does not abort main.
C8_UnparseableTotalNonFatal ==
    (nombre_element.found /\ ~IsInt(Strip(nombre_element.text)))
        => pc # "error"

\* the positions of the chunks of s that are not whitespace
NonWsIdx(s) == SelectSeq([i \in 1..Len(s) |-> i], LAMBDA i : s[i] \notin WS)

\* for each two neighbouring non-whitespace chunks, whether whitespace parts them
Gaps(s) ==
    LET idx == NonWsIdx(s)
    IN  [k \in 1..(Len(idx) - 1) |-> idx[k + 1] > idx[k] + 1]

Normalized(s) ==
    /\ s # <<>> => (s[1] \notin WS /\ s[Len(s)] \notin WS)
    /\ \A i \in 1..(Len(s) - 1) : ~(s[i] \in WS /\ s[i + 1] \in WS)
    /\ \A i \in 1..Len(s) : s[i] \in WS => s[i] = " "

\* C9: clean_text is idempotent, its result has no whitespace at either end
\* and no two whitespace characters in a row, and every whitespace run inside
\* the text has become one space.
C9_CleanTextIdempotent ==
    pc = "clean_done" =>
        LET x == IF arg = None THEN <<>> ELSE arg
            y == ret[1]
        IN  /\ ret[2] = y
            /\ Normalized(y)
            /\ SelectSeq(y, LAMBDA c : c \notin WS) = SelectSeq(x, LAMBDA c : c \notin WS)
            /\ Gaps(y) = Gaps(x)

\* a text with whitespace at both ends and a run of two inside was cleaned
C9_Witness ==
    /\ pc = "clean_done"
    /\ arg = <<" ", "a", "\t", " ", "a", " ">>
    /\ ret[1] = <<"a", " ", "a">>

\* C10: the deadline is taken from the earliest block that holds the phrase and
\* whose next block yields a fragment, and is left out only when no occurrence
\* of the phrase yields one.
C10_DeadlineFirstSuccessful ==
    pc = "card_done" =>
        LET bs == arg.limita_cards
            yielding == {i \in 1..(Len(bs) - 1) :
                            bs[i].phrase /\ DateParts(bs[i + 1].date_divs, <<>>) # <<>>}
        IN  IF yielding = {}
            THEN ~Has(ret, K_DATE)
            ELSE LET first == CHOOSE i \in yielding : \A j \in yielding : i <= j
                 IN  /\ Has(ret, K_DATE)
                     /\ Get(ret, K_DATE)
                           = Join(DateParts(bs[first + 1].date_divs, <<>>), <<" ">>)

====
